---- MODULE Spec2Model ----
(***************************************************************************)
(* Invoice service (app.py): the persisted invoice counter and its         *)
(* allocator get_next_invoice_number, the two request handlers calculate   *)
(* (preview) and download (finalize), and generate_invoice.                *)
(*                                                                         *)
(* Money is kept in cents.  Quantities, unit prices (whole dollars) and    *)
(* tax rates (whole percent) are non-negative integers, so every amount    *)
(* the code computes in floating point is an exact number of cents here.   *)
(***************************************************************************)
EXTENDS Integers, Sequences, FiniteSets, TLC

\* ---------------------------------------------------------------- bounds
NThreads == 2        \* request slots served at the same time
MaxRequests == 3     \* requests accepted in one behaviour
MaxCrashes == 1      \* process crashes / restarts in one behaviour
MaxFaults == 1       \* injected I/O failures in one behaviour
MaxItems == 2        \* longest item list of the calculator runs
CalcRequests == 2    \* requests of one calculator run

\* ------------------------------------------------------ program constants
Seed == 74           \* invoice_number = 74 when the file is absent
DefaultLast == 73    \* data.get('last_invoice', 73)

Threads == 1..NThreads
Years == {2025, 2026}            \* datetime.now().year

\* ------------------------------------------------- the counter file's content
Absent == [kind |-> "absent", n |-> 0]          \* no invoice_counter.json
Ok(n) == [kind |-> "ok", n |-> n]               \* {"last_invoice": n}
BadJson == [kind |-> "badjson", n |-> 0]        \* empty / truncated / not JSON
NonObject == [kind |-> "nonobject", n |-> 0]    \* valid JSON, not an object: []
NoKey == [kind |-> "nokey", n |-> 0]            \* an object without last_invoice: {}
StrVal == [kind |-> "strval", n |-> 0]          \* {"last_invoice": "x"} or null

InitStores == {Absent, Ok(80), Ok(999), BadJson, NonObject, NoKey, StrVal}

\* ------------------------------------------------------------ request items
Num(v) == [k |-> "num", v |-> v]
Bad == [k |-> "bad", v |-> 0]                   \* a non-numeric string: "abc"
Missing == [k |-> "missing", v |-> 0]           \* the key is not in the item

Item(q, p, t) == [qty |-> q, price |-> p, tax |-> t]
Widget == Item(Num(2), Num(10), Num(10))
ReqItems ==
    { <<>>,
      <<Widget, Item(Num(3), Missing, Num(10))>>,
      <<Widget, Item(Bad, Num(10), Num(10))>> }

NumItems == { Item(Num(q), Num(p), Num(t)) : q \in {0, 1, 2}, p \in {3, 12}, t \in {0, 25} }
RECURSIVE ListsUpTo(_, _)
ListsUpTo(S, n) ==
    IF n = 0 THEN { <<>> }
    ELSE LET shorter == ListsUpTo(S, n - 1)
         IN shorter \cup { Append(l, x) : l \in { s \in shorter : Len(s) = n - 1 }, x \in S }
CalcItems == ListsUpTo(NumItems, MaxItems)

\* --------------------------------------------------------------- formatting
\* f'{x:.2f}' of a non-negative amount x given in cents
Digits2(n) == IF n < 10 THEN "0" \o ToString(n) ELSE ToString(n)
Fmt2(c) == ToString(c \div 100) \o "." \o Digits2(c % 100)

\* the padding as f'{n:02d}' would do it
Pad3_two(n) == IF n < 10 THEN "0" \o ToString(n) ELSE ToString(n)

\* f'{n:03d}'
Pad3(n) ==
    IF n < 10 THEN "00" \o ToString(n)
    ELSE IF n < 100 THEN "0" \o ToString(n)
    ELSE ToString(n)

\* invoice_no = f'INV-{today.year}-{invoice_number:03d}'
invoice_no(year, n) == "INV-" \o ToString(year) \o "-" \o Pad3(n)

\* float(item.get(key, 0))
to_float(f) ==
    IF f.k = "bad" THEN [raised |-> TRUE, v |-> 0] ELSE [raised |-> FALSE, v |-> f.v]

VARIABLES
    invoice_counter_file,   \* content of invoice_counter.json
    pc,                     \* pc[t]: where request slot t stands
    invoice_number,         \* invoice_number[t]: the allocator's local
    req,                    \* req[t]: the request slot t serves or served last
    resp,                   \* resp[t]: the response slot t gave last
    returned,               \* numbers get_next_invoice_number returned, in order
    nreq, crashes, faults,  \* counters for the bounds
    store_init              \* the file's content when the behaviour began

vars == <<invoice_counter_file, pc, invoice_number, req, resp, returned,
          nreq, crashes, faults, store_init>>

NoReq == [kind |-> "none", items |-> <<>>, store0 |-> Absent, calls |-> 0,
          alloc_raised |-> FALSE, got |-> 0]
NoResp == [success |-> FALSE, error |-> "", items |-> <<>>, subtotal |-> "",
           tax |-> "", total |-> "", filename |-> "", store1 |-> Absent]

Init ==
    /\ invoice_counter_file \in InitStores
    /\ store_init = invoice_counter_file
    /\ pc = [t \in Threads |-> "idle"]
    /\ invoice_number = [t \in Threads |-> 0]
    /\ req = [t \in Threads |-> NoReq]
    /\ resp = [t \in Threads |-> NoResp]
    /\ returned = <<>>
    /\ nreq = 0
    /\ crashes = 0
    /\ faults = 0

Free(t) == pc[t] \in {"idle", "done"}
Quiet == \A t \in Threads : Free(t)

\* jsonify({'success': False, 'error': str(e)}), 400
ErrorResp(err, store) == [NoResp EXCEPT !.error = err, !.store1 = store]

\* str(e) of the exceptions the handlers catch
ValueErrorMsg == "could not convert string to float: 'abc'"
NoItemsMsg == "No items provided"
RenderErrorMsg == "render"
IOErrorMsg == "io"

\* subtotal = 0, total_tax = 0, no rows yet
LoopStart == [raised |-> FALSE, rows |-> <<>>, subtotal |-> 0, total_tax |-> 0]

\* ------------------------------------------------------------ the item loops
\* the preview loop adding line_total, tax included, to the subtotal
RECURSIVE calculate_loop_total(_, _)
calculate_loop_total(items, acc) ==
    IF items = <<>> \/ acc.raised THEN acc
    ELSE LET item == Head(items)
             qty == to_float(item.qty)
             price == to_float(item.price)
             tax == to_float(item.tax)
         IN IF qty.raised \/ price.raised \/ tax.raised
            THEN [acc EXCEPT !.raised = TRUE]
            ELSE LET line_subtotal == qty.v * (price.v * 100)
                     line_tax == (line_subtotal * tax.v) \div 100
                     line_total == line_subtotal + line_tax
                 IN calculate_loop_total(Tail(items),
                        [raised |-> FALSE,
                         rows |-> Append(acc.rows,
                                     [qty |-> qty.v, price |-> price.v,
                                      line_total |-> line_total]),
                         subtotal |-> acc.subtotal + line_total,
                         total_tax |-> acc.total_tax + line_tax])

\* calculate: for item in items (the accumulation of one preview)
RECURSIVE calculate_loop(_, _)
calculate_loop(items, acc) ==
    IF items = <<>> \/ acc.raised THEN acc
    ELSE LET item == Head(items)
             qty == to_float(item.qty)
             price == to_float(item.price)
             tax == to_float(item.tax)
         IN IF qty.raised \/ price.raised \/ tax.raised
            THEN [acc EXCEPT !.raised = TRUE]
            ELSE LET line_subtotal == qty.v * (price.v * 100)
                     line_tax == (line_subtotal * tax.v) \div 100
                     line_total == line_subtotal + line_tax
                 IN calculate_loop(Tail(items),
                        [raised |-> FALSE,
                         rows |-> Append(acc.rows,
                                     [qty |-> qty.v, price |-> price.v,
                                      line_total |-> line_total]),
                         subtotal |-> acc.subtotal + line_subtotal,
                         total_tax |-> acc.total_tax + line_tax])

\* generate_invoice: for item in items_data (the rows of the document)
RECURSIVE invoice_loop(_, _)
invoice_loop(items, acc) ==
    IF items = <<>> \/ acc.raised THEN acc
    ELSE LET item == Head(items)
             qty == to_float(item.qty)
             unit_price == to_float(item.price)
             tax_rate == to_float(item.tax)
         IN IF qty.raised \/ unit_price.raised \/ tax_rate.raised
            THEN [acc EXCEPT !.raised = TRUE]
            ELSE LET line_subtotal == qty.v * (unit_price.v * 100)
                     line_tax == (line_subtotal * tax_rate.v) \div 100
                     line_total == line_subtotal + line_tax
                 IN invoice_loop(Tail(items),
                        [raised |-> FALSE,
                         rows |-> Append(acc.rows,
                                     [qty |-> ToString(qty.v) \o ".0",
                                      price |-> "$" \o Fmt2(unit_price.v * 100),
                                      line_total |-> "$" \o Fmt2(line_total)]),
                         subtotal |-> acc.subtotal + line_subtotal,
                         total_tax |-> acc.total_tax + line_tax])

\* ------------------------------------------------------------- the allocator
\* the read adding 2 to the persisted value
read_counter_skip(s) ==
    IF s.kind = "ok" THEN [raised |-> FALSE, n |-> s.n + 2, error |-> ""]
    ELSE IF s.kind = "nokey" THEN [raised |-> FALSE, n |-> DefaultLast + 1, error |-> ""]
    ELSE [raised |-> TRUE, n |-> 0, error |-> "Error"]

\* json.load(f) and data.get('last_invoice', 73) + 1 on the file's content
read_counter(s) ==
    IF s.kind = "ok" THEN [raised |-> FALSE, n |-> s.n + 1, error |-> ""]
    ELSE IF s.kind = "nokey" THEN [raised |-> FALSE, n |-> DefaultLast + 1, error |-> ""]
    ELSE IF s.kind = "badjson" THEN [raised |-> TRUE, n |-> 0, error |-> "JSONDecodeError"]
    ELSE IF s.kind = "nonobject" THEN [raised |-> TRUE, n |-> 0, error |-> "AttributeError"]
    ELSE IF s.kind = "strval" THEN [raised |-> TRUE, n |-> 0, error |-> "TypeError"]
    ELSE [raised |-> TRUE, n |-> 0, error |-> "FileNotFoundError"]

\* An exception that leaves get_next_invoice_number and generate_invoice and is
\* caught by download's except clause.
Raise(t, err) ==
    /\ resp' = [resp EXCEPT ![t] = ErrorResp(err, invoice_counter_file)]
    /\ pc' = [pc EXCEPT ![t] = "done"]

\* if os.path.exists(invoice_counter_file): ... else: invoice_number = 74
get_next_exists(t) ==
    /\ pc[t] = "exists"
    /\ req' = [req EXCEPT ![t].calls = @ + 1]
    /\ IF invoice_counter_file.kind # "absent"
       THEN /\ pc' = [pc EXCEPT ![t] = "read"]
            /\ UNCHANGED invoice_number
       ELSE /\ pc' = [pc EXCEPT ![t] = "open_w"]
            /\ invoice_number' = [invoice_number EXCEPT ![t] = Seed]
    /\ UNCHANGED <<invoice_counter_file, resp, returned, nreq, crashes, faults, store_init>>

\* with open(invoice_counter_file, 'r') as f: data = json.load(f); ...
get_next_read(t) ==
    /\ pc[t] = "read"
    /\ LET r == read_counter(invoice_counter_file)
       IN IF r.raised
          THEN /\ Raise(t, r.error)
               /\ req' = [req EXCEPT ![t].alloc_raised = TRUE]
               /\ UNCHANGED invoice_number
          ELSE /\ invoice_number' = [invoice_number EXCEPT ![t] = r.n]
               /\ pc' = [pc EXCEPT ![t] = "open_w"]
               /\ UNCHANGED <<req, resp>>
    /\ UNCHANGED <<invoice_counter_file, returned, nreq, crashes, faults, store_init>>

\* open(invoice_counter_file, 'w'): the file is truncated on open
get_next_open_w(t) ==
    /\ pc[t] = "open_w"
    /\ invoice_counter_file' = BadJson
    /\ pc' = [pc EXCEPT ![t] = "dump"]
    /\ UNCHANGED <<invoice_number, req, resp, returned, nreq, crashes, faults, store_init>>

\* the write persisting the value read, before the increment
get_next_dump_stale(t) ==
    /\ pc[t] = "dump"
    /\ invoice_counter_file' = Ok(invoice_number[t] - 1)
    /\ pc' = [pc EXCEPT ![t] = "return"]
    /\ UNCHANGED <<invoice_number, req, resp, returned, nreq, crashes, faults, store_init>>

\* json.dump({'last_invoice': invoice_number}, f) and the close that flushes it
get_next_dump(t) ==
    /\ pc[t] = "dump"
    /\ invoice_counter_file' = Ok(invoice_number[t])
    /\ pc' = [pc EXCEPT ![t] = "return"]
    /\ UNCHANGED <<invoice_number, req, resp, returned, nreq, crashes, faults, store_init>>

\* return invoice_number
get_next_return(t) ==
    /\ pc[t] = "return"
    /\ returned' = Append(returned, invoice_number[t])
    /\ req' = [req EXCEPT ![t].got = invoice_number[t]]
    /\ pc' = [pc EXCEPT ![t] = "body"]
    /\ UNCHANGED <<invoice_counter_file, invoice_number, resp, nreq, crashes, faults, store_init>>

\* a failed open or write swallowed: the allocator goes on to return its number
get_next_io_error_swallowed(t) ==
    /\ pc[t] \in {"read", "open_w", "dump"}
    /\ faults < MaxFaults
    /\ faults' = faults + 1
    /\ IF pc[t] = "read"
       THEN /\ Raise(t, IOErrorMsg)
            /\ req' = [req EXCEPT ![t].alloc_raised = TRUE]
       ELSE /\ pc' = [pc EXCEPT ![t] = "return"]
            /\ UNCHANGED <<req, resp>>
    /\ UNCHANGED <<invoice_counter_file, invoice_number, returned, nreq, crashes, store_init>>

\* The read, the open for writing or the write raises OSError (unreadable file,
\* read-only or full disk): the exception leaves the allocator.
get_next_io_error(t) ==
    /\ pc[t] \in {"read", "open_w", "dump"}
    /\ faults < MaxFaults
    /\ faults' = faults + 1
    /\ Raise(t, IOErrorMsg)
    /\ req' = [req EXCEPT ![t].alloc_raised = TRUE]
    /\ UNCHANGED <<invoice_counter_file, invoice_number, returned, nreq, crashes, store_init>>

\* ------------------------------------------------------------- the handlers
\* generate_invoice after the allocator returned, and download's response
generate_invoice(t) ==
    /\ pc[t] = "body"
    /\ \E year \in Years, built \in BOOLEAN :
         LET no == invoice_no(year, invoice_number[t])
             r == invoice_loop(req[t].items, LoopStart)
             grand_total == r.subtotal + r.total_tax
         IN resp' = [resp EXCEPT ![t] =
                IF r.raised THEN ErrorResp(ValueErrorMsg, invoice_counter_file)
                ELSE IF ~built THEN ErrorResp(RenderErrorMsg, invoice_counter_file)
                ELSE [success |-> TRUE, error |-> "", items |-> r.rows,
                      subtotal |-> "$" \o Fmt2(r.subtotal),
                      tax |-> "$" \o Fmt2(r.total_tax),
                      total |-> "$" \o Fmt2(grand_total),
                      filename |-> no \o ".pdf",
                      store1 |-> invoice_counter_file]]
    /\ pc' = [pc EXCEPT ![t] = "done"]
    /\ UNCHANGED <<invoice_counter_file, invoice_number, req, returned, nreq, crashes, faults, store_init>>

\* the preview taking an invoice number as the finalize path does
calculate_allocating(t, items) ==
    /\ Free(t)
    /\ nreq < MaxRequests
    /\ nreq' = nreq + 1
    /\ req' = [req EXCEPT ![t] = [NoReq EXCEPT !.kind = "calculate", !.items = items,
                                                !.store0 = invoice_counter_file]]
    /\ LET r == calculate_loop(items, LoopStart)
           grand_total == r.subtotal + r.total_tax
           c == read_counter(invoice_counter_file)
           n == IF c.raised THEN Seed ELSE c.n
       IN /\ invoice_counter_file' = Ok(n)
          /\ returned' = Append(returned, n)
          /\ resp' = [resp EXCEPT ![t] =
                 IF r.raised THEN ErrorResp(ValueErrorMsg, invoice_counter_file)
                 ELSE [success |-> TRUE, error |-> "", items |-> r.rows,
                       subtotal |-> Fmt2(r.subtotal),
                       tax |-> Fmt2(r.total_tax),
                       total |-> Fmt2(grand_total),
                       filename |-> "",
                       store1 |-> invoice_counter_file]]
    /\ pc' = [pc EXCEPT ![t] = "done"]
    /\ UNCHANGED <<invoice_number, crashes, faults, store_init>>

\* POST /calculate
calculate(t, items) ==
    /\ Free(t)
    /\ nreq < MaxRequests
    /\ nreq' = nreq + 1
    /\ req' = [req EXCEPT ![t] = [NoReq EXCEPT !.kind = "calculate", !.items = items,
                                                !.store0 = invoice_counter_file]]
    /\ LET r == calculate_loop(items, LoopStart)
           grand_total == r.subtotal + r.total_tax
       IN resp' = [resp EXCEPT ![t] =
              IF r.raised THEN ErrorResp(ValueErrorMsg, invoice_counter_file)
              ELSE [success |-> TRUE, error |-> "", items |-> r.rows,
                    subtotal |-> Fmt2(r.subtotal),
                    tax |-> Fmt2(r.total_tax),
                    total |-> Fmt2(grand_total),
                    filename |-> "",
                    store1 |-> invoice_counter_file]]
    /\ pc' = [pc EXCEPT ![t] = "done"]
    /\ UNCHANGED <<invoice_counter_file, invoice_number, returned, crashes, faults, store_init>>

\* the finalize path without the check for an empty item list
download_unchecked(t, items) ==
    /\ Free(t)
    /\ nreq < MaxRequests
    /\ nreq' = nreq + 1
    /\ req' = [req EXCEPT ![t] = [NoReq EXCEPT !.kind = "download", !.items = items,
                                                !.store0 = invoice_counter_file]]
    /\ resp' = [resp EXCEPT ![t] = NoResp]
    /\ pc' = [pc EXCEPT ![t] = "exists"]
    /\ UNCHANGED <<invoice_counter_file, invoice_number, returned, crashes, faults, store_init>>

\* POST /download, up to the call of generate_invoice
download(t, items) ==
    /\ Free(t)
    /\ nreq < MaxRequests
    /\ nreq' = nreq + 1
    /\ req' = [req EXCEPT ![t] = [NoReq EXCEPT !.kind = "download", !.items = items,
                                                !.store0 = invoice_counter_file]]
    /\ IF items = <<>>
       THEN /\ resp' = [resp EXCEPT ![t] = ErrorResp(NoItemsMsg, invoice_counter_file)]
            /\ pc' = [pc EXCEPT ![t] = "done"]
       ELSE /\ resp' = [resp EXCEPT ![t] = NoResp]
            /\ pc' = [pc EXCEPT ![t] = "exists"]
    /\ UNCHANGED <<invoice_counter_file, invoice_number, returned, crashes, faults, store_init>>

\* The process dies and is started again: the requests in flight are lost, the
\* file stays as it is.
crash ==
    /\ crashes < MaxCrashes
    /\ crashes' = crashes + 1
    /\ pc' = [t \in Threads |-> IF Free(t) THEN pc[t] ELSE "idle"]
    /\ req' = [t \in Threads |-> IF Free(t) THEN req[t] ELSE NoReq]
    /\ resp' = [t \in Threads |-> IF Free(t) THEN resp[t] ELSE NoResp]
    /\ invoice_number' = [t \in Threads |-> IF Free(t) THEN invoice_number[t] ELSE 0]
    /\ UNCHANGED <<invoice_counter_file, returned, nreq, faults, store_init>>

Step(t) ==
    \/ get_next_exists(t)
    \/ get_next_read(t)
    \/ get_next_open_w(t)
    \/ get_next_dump(t)
    \/ get_next_return(t)
    \/ get_next_io_error(t)
    \/ generate_invoice(t)

\* Requests are served by concurrent threads.
Next ==
    \/ \E t \in Threads, items \in ReqItems : calculate(t, items) \/ download(t, items)
    \/ \E t \in Threads : Step(t)
    \/ crash

Spec == Init /\ [][Next]_vars

\* Requests are served one after the other: a request is accepted only when no
\* other is in flight.  The slots are alike, so they are taken in turn.
Turn == (nreq % NThreads) + 1

SeqNext ==
    \/ \E items \in ReqItems :
          Quiet /\ (calculate(Turn, items) \/ download(Turn, items))
    \/ \E t \in Threads : Step(t)
    \/ crash

SeqSpec == Init /\ [][SeqNext]_vars

\* The calculator over every list of numeric items: the list is drawn at the
\* start, and the slots preview and finalize it, one request at a time, on a
\* fresh store.
CalcInit ==
    /\ invoice_counter_file = Absent
    /\ store_init = invoice_counter_file
    /\ pc = [t \in Threads |-> "idle"]
    /\ invoice_number = [t \in Threads |-> 0]
    /\ \E items \in CalcItems : req = [t \in Threads |-> [NoReq EXCEPT !.items = items]]
    /\ resp = [t \in Threads |-> NoResp]
    /\ returned = <<>>
    /\ nreq = 0
    /\ crashes = 0
    /\ faults = 0

CalcNext ==
    \/ /\ Quiet /\ nreq < CalcRequests
       /\ (calculate(Turn, req[Turn].items) \/ download(Turn, req[Turn].items))
    \/ \E t \in Threads :
          \/ get_next_exists(t)
          \/ get_next_read(t)
          \/ get_next_open_w(t)
          \/ get_next_dump(t)
          \/ get_next_return(t)
          \/ generate_invoice(t)

CalcSpec == CalcInit /\ [][CalcNext]_vars

\* ================================================================ properties
Done(t) == pc[t] = "done"
NoFailure == crashes = 0 /\ faults = 0
Range(s) == { s[i] : i \in 1..Len(s) }
HasBad(items) ==
    \E i \in 1..Len(items) :
        items[i].qty.k = "bad" \/ items[i].price.k = "bad" \/ items[i].tax.k = "bad"

\* C1: overlapping finalize requests on a fresh store get pairwise distinct
\* numbers forming the gap-free run 74..73+N, and the store ends at 73+N.
C1_ConcurrentDistinctGapFree ==
    (store_init = Absent /\ NoFailure) =>
        /\ \A i, j \in 1..Len(returned) : i # j => returned[i] # returned[j]
        /\ (Quiet /\ returned # <<>>) =>
               /\ Range(returned) = Seed .. (Seed + Len(returned) - 1)
               /\ invoice_counter_file = Ok(DefaultLast + Len(returned))

\* C2: from a store with no counter file, sequential calls return 74, 75, ...
\* in that order, and each call persists the value it returns.
C2_SequentialSequence ==
    (store_init = Absent /\ NoFailure) =>
        /\ \A i \in 1..Len(returned) : returned[i] = 73 + i
        /\ Quiet =>
               invoice_counter_file =
                   IF returned = <<>> THEN Absent ELSE Ok(73 + Len(returned))

C2_Witness ==
    /\ store_init = Absent /\ NoFailure /\ Quiet
    /\ returned = <<74, 75, 76>>
    /\ invoice_counter_file = Ok(76)

\* C3: a finalize request with a non-empty item list holding a non-numeric
\* field is rejected and leaves the persisted counter as it was.
C3_RejectedWithoutAllocation ==
    \A t \in Threads :
        (NoFailure /\ Done(t) /\ req[t].kind = "download" /\ HasBad(req[t].items)) =>
            /\ ~resp[t].success
            /\ req[t].got = 0
            /\ resp[t].store1 = req[t].store0

\* C4: over any sequence of finalize requests, with failures after the
\* allocation and restarts, the returned numbers are strictly increasing.
C4_StrictlyIncreasing ==
    \A i, j \in 1..Len(returned) : i < j => returned[i] < returned[j]

C4_Witness ==
    /\ crashes >= 1
    /\ Len(returned) >= 2
    /\ \E t \in Threads :
          /\ Done(t) /\ req[t].kind = "download"
          /\ resp[t].error \in {ValueErrorMsg, RenderErrorMsg}
          /\ req[t].got = returned[1]

\* C5: a preview never calls the allocator and never changes the persisted
\* counter or the numbers handed out, and two previews of the same items give
\* the same subtotal, tax and total.
PreviewStep ==
    /\ nreq' = nreq + 1
    /\ \E t \in Threads :
          /\ pc'[t] = "done" /\ req'[t].kind = "calculate"
          /\ \A u \in Threads \ {t} : pc'[u] = pc[u] /\ req'[u] = req[u]

C5_PreviewSideEffectFree ==
    /\ [](\A t, u \in Threads :
            (Done(t) /\ req[t].kind = "calculate") =>
                /\ req[t].calls = 0
                /\ resp[t].store1 = req[t].store0
                /\ (Done(u) /\ req[u].kind = "calculate" /\ req[u].items = req[t].items) =>
                       /\ resp[u].success = resp[t].success
                       /\ resp[u].subtotal = resp[t].subtotal
                       /\ resp[u].tax = resp[t].tax
                       /\ resp[u].total = resp[t].total)
    /\ [][PreviewStep =>
            /\ invoice_counter_file' = invoice_counter_file
            /\ returned' = returned]_vars

C5_Witness ==
    /\ returned # <<>>
    /\ \A t \in Threads : Done(t) /\ req[t].kind = "calculate" /\ resp[t].success
    /\ req[1].items = req[2].items /\ req[1].items # <<>>

\* C6: when the store exists but is corrupt, the allocator returns no number,
\* its caller gets an error and the store is not overwritten; only an absent
\* store yields the seed 74.
Corrupt(s) == s.kind \in {"badjson", "nonobject", "nokey", "strval"}

C6_CorruptStoreFailsLoudly ==
    \A t \in Threads :
        (NoFailure /\ Done(t) /\ req[t].kind = "download" /\ req[t].calls > 0) =>
            /\ Corrupt(req[t].store0) =>
                   /\ req[t].got = 0
                   /\ ~resp[t].success
                   /\ resp[t].store1 = req[t].store0
            /\ req[t].got = Seed => req[t].store0 = Absent

\* C7: an empty item list succeeds on the preview path with all totals "0.00",
\* and is rejected on the finalize path with "No items provided" before
\* generate_invoice is called, the persisted counter unchanged.
C7_EmptyItems ==
    \A t \in Threads :
        (Done(t) /\ req[t].items = <<>>) =>
            /\ req[t].kind = "calculate" =>
                   /\ resp[t].success
                   /\ resp[t].items = <<>>
                   /\ resp[t].subtotal = "0.00"
                   /\ resp[t].tax = "0.00"
                   /\ resp[t].total = "0.00"
            /\ req[t].kind = "download" =>
                   /\ ~resp[t].success
                   /\ resp[t].error = "No items provided"
                   /\ req[t].calls = 0
                   /\ req[t].got = 0
                   /\ resp[t].store1 = req[t].store0

C7_Witness ==
    /\ \E t \in Threads :
          Done(t) /\ req[t].kind = "calculate" /\ req[t].items = <<>> /\ resp[t].total = "0.00"
    /\ \E t \in Threads :
          /\ Done(t) /\ req[t].kind = "download" /\ req[t].items = <<>>
          /\ req[t].store0 = Ok(81)
          /\ invoice_counter_file = Ok(81)

\* C8: the calculator keeps the input order; the item at position i has
\* line_total = qty*price + qty*price*tax/100, and over the list
\* subtotal = sum of qty*price, tax = sum of the line taxes and
\* grand_total = subtotal + tax (amounts in cents).
RECURSIVE SumSeq(_)
SumSeq(s) == IF s = <<>> THEN 0 ELSE s[Len(s)] + SumSeq(SubSeq(s, 1, Len(s) - 1))
LineSubtotals(items) == [i \in 1..Len(items) |-> 100 * items[i].qty.v * items[i].price.v]
LineTaxes(items) == [i \in 1..Len(items) |-> items[i].qty.v * items[i].price.v * items[i].tax.v]

C8_LineItemsAndTotals ==
    \A t \in Threads :
        (Done(t) /\ resp[t].success) =>
            LET items == req[t].items
                subs == LineSubtotals(items)
                taxes == LineTaxes(items)
                out == resp[t].items
                cur == IF req[t].kind = "download" THEN "$" ELSE ""
            IN /\ Len(out) = Len(items)
               /\ \A i \in 1..Len(items) :
                      IF req[t].kind = "calculate"
                      THEN /\ out[i].qty = items[i].qty.v
                           /\ out[i].price = items[i].price.v
                           /\ out[i].line_total = subs[i] + taxes[i]
                      ELSE /\ out[i].qty = ToString(items[i].qty.v) \o ".0"
                           /\ out[i].price = "$" \o Fmt2(100 * items[i].price.v)
                           /\ out[i].line_total = "$" \o Fmt2(subs[i] + taxes[i])
               /\ resp[t].subtotal = cur \o Fmt2(SumSeq(subs))
               /\ resp[t].tax = cur \o Fmt2(SumSeq(taxes))
               /\ resp[t].total = cur \o Fmt2(SumSeq(subs) + SumSeq(taxes))

C8_Witness ==
    /\ \E t \in Threads :
          /\ Done(t) /\ req[t].kind = "calculate" /\ resp[t].success
          /\ Len(req[t].items) = 2 /\ req[t].items[1] # req[t].items[2]
          /\ resp[t].subtotal = "15.00" /\ resp[t].tax = "3.00" /\ resp[t].total = "18.00"
    /\ \E t \in Threads :
          /\ Done(t) /\ req[t].kind = "download" /\ resp[t].success
          /\ resp[t].total = "$18.00"
          /\ resp[t].items[2].line_total = "$15.00"

\* C9: the allocator hands out n only after the store holds last_invoice = n;
\* a call whose read or write failed hands out nothing; and the persisted
\* counter never falls behind a number already handed out, so no call after
\* a failure or restart can hand one out again.
C9_PersistBeforeReturn ==
    /\ \A t \in Threads :
          /\ pc[t] = "body" => (req[t].got = invoice_number[t]
                                /\ invoice_counter_file = Ok(req[t].got))
          /\ req[t].alloc_raised =>
                 /\ req[t].got = 0
                 /\ Done(t) /\ ~resp[t].success
          /\ req[t].got # 0 => req[t].got \in Range(returned)
    /\ invoice_counter_file.kind = "ok" =>
           \A i \in 1..Len(returned) : returned[i] <= invoice_counter_file.n
    /\ invoice_counter_file.kind = "absent" => returned = <<>>
    /\ Len(returned) <= nreq

C9_Witness ==
    /\ crashes = 1 /\ Quiet
    /\ returned # <<>>
    /\ invoice_counter_file = BadJson
    /\ \E t \in Threads :
          /\ Done(t) /\ req[t].alloc_raised
          /\ req[t].store0 = BadJson
          /\ resp[t].error = "JSONDecodeError"

\* C10: a finalize request that reaches generate_invoice calls the allocator
\* exactly once; a successful one advances last_invoice by exactly 1 (to the
\* seed on a fresh store) and its filename is INV-<year>-<that value, padded
\* with zeros to at least 3 digits>.pdf; a preview calls it zero times.
RECURSIVE Zeros(_)
Zeros(k) == IF k <= 0 THEN "" ELSE "0" \o Zeros(k - 1)
RECURSIVE NDigits(_)
NDigits(n) == IF n < 10 THEN 1 ELSE 1 + NDigits(n \div 10)

C10_OneAllocationPerFinalize ==
    \A t \in Threads :
        /\ req[t].calls <= 1
        /\ (req[t].kind = "download" /\ pc[t] \notin {"idle", "exists", "done"}) =>
               req[t].calls = 1
        /\ (Done(t) /\ req[t].kind = "download" /\ req[t].items # <<>>) => req[t].calls = 1
        /\ req[t].kind = "calculate" => req[t].calls = 0
        /\ (Done(t) /\ req[t].kind = "download" /\ resp[t].success) =>
               LET n == req[t].got
               IN /\ resp[t].store1 = Ok(n)
                  /\ req[t].store0.kind = "ok" => n = req[t].store0.n + 1
                  /\ req[t].store0.kind = "absent" => n = 74
                  /\ \E y \in Years :
                        resp[t].filename =
                            "INV-" \o ToString(y) \o "-" \o Zeros(3 - NDigits(n))
                                \o ToString(n) \o ".pdf"

C10_Witness ==
    /\ \E t \in Threads :
          /\ Done(t) /\ req[t].kind = "download" /\ resp[t].success
          /\ req[t].store0 = Absent
          /\ resp[t].filename = "INV-2026-074.pdf"
    /\ \E t \in Threads :
          Done(t) /\ req[t].kind = "calculate" /\ req[t].store0 = Ok(74)

====
